---- MODULE Spec2Model ----
(***************************************************************************)
(* A model of frank.py: the command line client that franks letters.  The  *)
(* model follows imain(): parse_args, parse_addresses, apply_config and    *)
(* then run() step by step, one action per statement of run() that talks   *)
(* to the postal service client or returns.                                *)
(*                                                                         *)
(* Python strings that the program takes apart (addresses) are sequences   *)
(* of one-character strings.  Identifiers the program only passes on       *)
(* (product ids, patterns, directory names) are TLA+ strings.              *)
(***************************************************************************)
EXTENDS Integers, Sequences, FiniteSets, TLC

VARIABLES argv, args, pc, im, authenticated, page, ps, ss, i,
          built, added, checkouts, res, files, printed, listed,
          exit, exc, at

vars == <<argv, args, pc, im, authenticated, page, ps, ss, i,
          built, added, checkouts, res, files, printed, listed,
          exit, exc, at>>

(***************************************************************************)
(* Bounds of the model.                                                    *)
(***************************************************************************)
MaxRecipients == 7
MaxLines == 4
MaxCmd == 2
MaxCsvRows == 2

(***************************************************************************)
(* Characters and Python's string methods.                                 *)
(***************************************************************************)
SP == " "
NL == "\n"
SEMI == ";"
DOLLAR == "$"

Whitespace == {SP, NL}

In(c, s) == \E k \in 1..Len(s) : s[k] = c

StartsWith(s, c) == Len(s) > 0 /\ s[1] = c

\* str.split(d) for a one-character separator d
RECURSIVE Split(_, _)
Split(s, d) ==
  IF ~In(d, s) THEN <<s>>
  ELSE LET p == CHOOSE k \in 1..Len(s) :
                   s[k] = d /\ \A j \in 1..(k-1) : s[j] # d
       IN  <<SubSeq(s, 1, p-1)>> \o Split(SubSeq(s, p+1, Len(s)), d)

\* d.join(xs)
RECURSIVE Join(_, _)
Join(xs, d) ==
  IF Len(xs) = 0 THEN <<>>
  ELSE IF Len(xs) = 1 THEN xs[1]
  ELSE xs[1] \o <<d>> \o Join(Tail(xs), d)

\* str.lstrip() / str.rstrip() / str.strip()
RECURSIVE LStrip(_)
LStrip(s) == IF Len(s) > 0 /\ s[1] \in Whitespace THEN LStrip(Tail(s)) ELSE s

RECURSIVE RStrip(_)
RStrip(s) ==
  IF Len(s) > 0 /\ s[Len(s)] \in Whitespace
  THEN RStrip(SubSeq(s, 1, Len(s)-1)) ELSE s

Strip(s) == RStrip(LStrip(s))

\* xs[0:-1] and xs[1:]
AllButLast(xs) == SubSeq(xs, 1, Len(xs)-1)
AllButFirst(xs) == SubSeq(xs, 2, Len(xs))

DEU == <<"D", "E", "U">>

(***************************************************************************)
(* The configuration's address book: the sections a.<name>.  Section d is  *)
(* the default sender of the example configuration (a company: its first   *)
(* name is empty), section j is a person, section x lacks the city key.    *)
(***************************************************************************)
Conf ==
  (<<"d">> :> [first |-> <<>>, name |-> <<"A","C","M","E">>,
               street |-> <<"L">>, number |-> <<"3">>,
               zip |-> <<"1","2">>, city |-> <<"B">>])
  @@
  (<<"j">> :> [first |-> <<"J">>, name |-> <<"U">>,
               street |-> <<"S">>, number |-> <<"1">>,
               zip |-> <<"1","2">>, city |-> <<"C">>, country |-> <<"A","U","T">>])
  @@
  (<<"x">> :> [name |-> <<"X">>, street |-> <<"S">>, number |-> <<"1">>, zip |-> <<"1">>])

RequiredKeys == {"name", "street", "number", "zip", "city"}

\* the loop over ['\n', ';']: every delimiter found overwrites the last one
\* (variant: the loop leaves at the first delimiter it finds)
FindDelimiterBreak(s) ==
  IF In(NL, s) THEN NL ELSE IF In(SEMI, s) THEN SEMI ELSE ""
FindDelimiter(s) ==
  LET d0 == ""
      d1 == IF In(NL, s) THEN NL ELSE d0
      d2 == IF In(SEMI, s) THEN SEMI ELSE d1
  IN  d2

NoAddress == <<>>

\* line 0: "first name(s) last name", the last token is the name
SplitName(line) ==
  LET xs == Split(line, SP) IN
  IF Len(xs) = 1 THEN << <<>>, xs[1] >>
  ELSE << Join(AllButLast(xs), SP), xs[Len(xs)] >>

\* line 1: "street number", the last token is the number
SplitStreet(line) ==
  LET xs == Split(line, SP) IN
  IF Len(xs) = 1 THEN << xs[1], <<>> >>
  ELSE << Join(AllButLast(xs), SP), xs[Len(xs)] >>

\* line 2: "zip city", the first token is the postal code
\* (variant: the city line cut like the street line, at its last token)
SplitCityLikeStreet(line) ==
  LET xs == Split(line, SP) IN
  IF Len(xs) = 1 THEN << <<>>, xs[1] >>
  ELSE << Join(AllButLast(xs), SP), xs[Len(xs)] >>
SplitCity(line) ==
  LET xs == Split(line, SP) IN
  IF Len(xs) = 1 THEN << <<>>, xs[1] >>
  ELSE << xs[1], Join(AllButFirst(xs), SP) >>

\* line 3: the country, when it is more than whitespace
Country(line) ==
  LET c == Strip(line) IN IF c # <<>> THEN c ELSE DEU

\* the lines of parse_address after the delimiter is known
ParseLines(l) ==
  LET n == SplitName(l[1])
      st == IF Len(l) > 1 THEN SplitStreet(l[2]) ELSE << <<>>, <<>> >>
      ct == IF Len(l) > 2 THEN SplitCity(l[3]) ELSE << <<>>, <<>> >>
      country == IF Len(l) > 3 THEN Country(l[4]) ELSE DEU
  IN  <<n[1], n[2], st[1], st[2], ct[1], ct[2], country>>

\* parse_address(s, conf): [exc |-> "" and the 7-tuple, or the exception raised]
parse_address(s) ==
  IF StartsWith(s, DOLLAR)
  THEN LET n == Tail(s) IN
       IF n \notin DOMAIN Conf \/ ~(RequiredKeys \subseteq DOMAIN Conf[n])
       THEN [exc |-> "KeyError", v |-> NoAddress]
       ELSE LET h == Conf[n] IN
            [exc |-> "",
             v |-> << IF "first" \in DOMAIN h THEN h.first ELSE <<>>,
                      h.name, h.street, h.number, h.zip, h.city,
                      IF "country" \in DOMAIN h THEN h.country ELSE DEU >>]
  ELSE LET delimiter == FindDelimiter(s) IN
       IF delimiter = ""
       THEN [exc |-> "ValueError", v |-> NoAddress]
       ELSE [exc |-> "", v |-> ParseLines(Split(s, delimiter))]

(***************************************************************************)
(* Optional values (None or a value) and Python truthiness.                *)
(***************************************************************************)
NoList == [some |-> FALSE, v |-> <<>>]
SomeList(v) == [some |-> TRUE, v |-> v]
NoStr == [some |-> FALSE, v |-> ""]
SomeStr(v) == [some |-> TRUE, v |-> v]

TruthyList(o) == o.some /\ Len(o.v) > 0
TruthyStr(o) == o.some /\ o.v # ""
\* args.manifest holds False, True or the string of the [general] section
TruthyManifest(m) == m \notin {"False", ""}

\* the default of --sender: the address book entry of the user
DefaultSender == <<DOLLAR, "d">>

(***************************************************************************)
(* parse_csv: the rows after the header.  The first seven columns are the  *)
(* address (padded with ''), an eighth column goes to the product list.    *)
(***************************************************************************)
CsvAddress(r) == [k \in 1..7 |-> IF k <= Len(r) THEN r[k] ELSE <<>>]

RECURSIVE CsvProducts(_)
CsvProducts(rows) ==
  IF Len(rows) = 0 THEN <<>>
  ELSE (IF Len(rows[1]) > 7 THEN <<rows[1][8]>> ELSE <<>>)
       \o CsvProducts(Tail(rows))

parse_csv(rows) ==
  [xs |-> [k \in 1..Len(rows) |-> CsvAddress(rows[k])],
   ps |-> CsvProducts(rows)]

\* the index of the first string of xs that parse_address rejects, or 0
FirstFailure(xs) ==
  IF \A k \in 1..Len(xs) : parse_address(xs[k]).exc = "" THEN 0
  ELSE CHOOSE k \in 1..Len(xs) :
         /\ parse_address(xs[k]).exc # ""
         /\ \A j \in 1..(k-1) : parse_address(xs[j]).exc = ""

ParseAll(xs) == [k \in 1..Len(xs) |-> parse_address(xs[k]).v]

(***************************************************************************)
(* The catalog of paper formats (inema.formats): identifier and label      *)
(* grid.  The catalog is data of the client library; these entries stand   *)
(* for a single label, a 2 x 3 sheet and a 2 x 2 sheet.                    *)
(***************************************************************************)
Formats ==
  << [id |-> 1,  labelX |-> 1, labelY |-> 1],
     [id |-> 2,  labelX |-> 2, labelY |-> 3],
     [id |-> 26, labelX |-> 2, labelY |-> 2] >>

\* int(ident) on the strings the model uses: a string of digits or not
DigitStrings == [ s \in {"1", "2", "9", "26"} |->
                    CASE s = "1" -> 1 [] s = "2" -> 2 [] s = "9" -> 9 [] s = "26" -> 26 ]

\* get_format and get_page_info: the grid of the format, or the exception
get_format(ident) ==
  IF ident \notin DOMAIN DigitStrings
  THEN [exc |-> IF ident = "['26']" THEN "TypeError" ELSE "ValueError", v |-> <<0, 0>>]
  ELSE IF \A k \in 1..Len(Formats) : Formats[k].id # DigitStrings[ident]
  THEN [exc |-> "ValueError", v |-> <<0, 0>>]
  ELSE LET f == Formats[CHOOSE k \in 1..Len(Formats) :
                           /\ Formats[k].id = DigitStrings[ident]
                           /\ \A j \in 1..(k-1) : Formats[j].id # DigitStrings[ident]]
       IN  [exc |-> "", v |-> <<f.labelX, f.labelY>>]

(***************************************************************************)
(* The placement of buy.  int(a / b) is Python's true division followed by *)
(* truncation; for the non-negative a (a number of recipients, far below   *)
(* 2^53) and positive b of the program the quotient is the largest q with  *)
(* q * b <= a.                                                             *)
(***************************************************************************)
\* (variant: the quotient rounded to the nearest integer)
IntRoundDiv(a, b) == CHOOSE q \in 0..(a + 1) : 2 * q * b <= 2 * a + b /\ 2 * a + b < 2 * (q + 1) * b
IntTrueDiv(a, b) == CHOOSE q \in 0..a : q * b <= a /\ a < (q + 1) * b

\* (variant: the row taken from the index itself, not from the index of the row)
PlaceRowOfIndex(n, pi) ==
  [page   |-> IntTrueDiv(n, pi[1] * pi[2]) + 1,
   column |-> (n % pi[1]) + 1,
   row    |-> (n % pi[2]) + 1]

Place(n, pi) ==
  [page   |-> IntTrueDiv(n, pi[1] * pi[2]) + 1,
   column |-> (n % pi[1]) + 1,
   row    |-> (IntTrueDiv(n, pi[1]) % pi[2]) + 1]

(***************************************************************************)
(* The two clients.  Fake_IM declares its methods with these numbers of    *)
(* arguments (self not counted); a call with another number raises         *)
(* TypeError.  The live client is the library's and accepts the calls.     *)
(***************************************************************************)
FakeArity == [build_addr |-> 5, build_pers_addr |-> 3, build_comp_addr |-> 3,
              build_position |-> 3, add_position |-> 1, compute_total |-> 0,
              checkoutPDF |-> 1, retrievePreviewPDF |-> 2]

\* whether the client takes a call of the method with n positional arguments
Accepts(client, method, n) ==
  client = "live" \/ (method \in DOMAIN FakeArity /\ FakeArity[method] = n)

\* mk_address(im, x, conf): "" or the method whose call raises TypeError
mk_address(client, x) ==
  IF ~Accepts(client, "build_addr", 5) THEN "build_addr"
  ELSE IF x[1] # <<>>
       THEN (IF Accepts(client, "build_pers_addr", 3) THEN "" ELSE "build_pers_addr")
       ELSE (IF Accepts(client, "build_comp_addr", 2) THEN "" ELSE "build_comp_addr")

(***************************************************************************)
(* Files.                                                                  *)
(***************************************************************************)
Today == "2016-01-01"

\* mk_filename(args, base='postage'); called without args it is a TypeError
mk_filename(given, a, base) ==
  IF ~given THEN [exc |-> "TypeError", v |-> <<>>]
  ELSE [exc |-> "", v |-> <<a.output, "/", base, "_", Today, a.suffix, ".pdf">>]

\* the result of checkoutPDF: None (the fake client) or what the service sent
NoneRes == [none |-> TRUE, manifest_pdf_bin |-> FALSE, pdf_bin |-> "absent",
            voucher_pdf_bin |-> FALSE]

ResShapes ==
  [none : {FALSE}, manifest_pdf_bin : BOOLEAN,
   pdf_bin : {"absent", "empty", "data"}, voucher_pdf_bin : BOOLEAN]

(***************************************************************************)
(* The end of imain: a return value, a fault of the service that imain     *)
(* catches (exit code 1), or any other exception, which nobody catches     *)
(* (the interpreter prints the traceback and exits with 1).                *)
(***************************************************************************)
Return(code) ==
  /\ pc' = "done" /\ exit' = code /\ exc' = "" /\ at' = ""

Raise(type, where) ==
  /\ pc' = "done" /\ exit' = 1 /\ exc' = type /\ at' = where

\* the outcomes of a call of the service: the live client may answer with a
\* fault, the fake client never does
Outcomes(client) == IF client = "live" THEN {"ok", "fault"} ELSE {"ok"}

(***************************************************************************)
(* parse_args: the defaults set after argparse.                            *)
(***************************************************************************)
ParseArgs ==
  /\ pc = "parse_args"
  /\ args' = [args EXCEPT
       !.format = IF args.format = "" THEN "['26']" ELSE @,
       !.sender = IF TruthyList(args.sender) THEN @ ELSE SomeList(<<DefaultSender>>)]
  /\ pc' = "parse_addresses"
  /\ UNCHANGED <<argv, im, authenticated, page, ps, ss, i, built, added,
                 checkouts, res, files, printed, listed, exit, exc, at>>

(***************************************************************************)
(* parse_addresses: recipients, then senders, then the CSV file.           *)
(***************************************************************************)
ParseAddresses ==
  /\ pc = "parse_addresses"
  /\ LET fr == FirstFailure(args.recipients)
         fs == FirstFailure(args.sender.v)
         recipients == ParseAll(args.recipients)
         t == parse_csv(args.csv.v)
     IN  IF fr # 0
         THEN /\ Raise(parse_address(args.recipients[fr]).exc, "parse_address")
              /\ args' = args
         ELSE IF fs # 0
         THEN /\ Raise(parse_address(args.sender.v[fs]).exc, "parse_address")
              /\ args' = [args EXCEPT !.recipients = recipients]
         ELSE /\ args' = [args EXCEPT
                   !.recipients = IF args.csv.some THEN recipients \o t.xs
                                  ELSE recipients,
                   !.sender = SomeList(ParseAll(args.sender.v)),
                   !.product = IF args.csv.some
                               THEN SomeList((IF TruthyList(@) THEN @.v ELSE <<>>) \o t.ps)
                               ELSE @]
              /\ pc' = "apply_config"
              /\ UNCHANGED <<exit, exc, at>>
  /\ UNCHANGED <<argv, im, authenticated, page, ps, ss, i, built, added,
                 checkouts, res, files, printed, listed>>

(***************************************************************************)
(* apply_config: the manifest setting of the [general] section.            *)
(***************************************************************************)
ApplyConfig ==
  /\ pc = "apply_config"
  /\ args' = [args EXCEPT !.manifest =
       IF ~TruthyManifest(@) /\ args.general.section
       THEN (IF args.general.manifest.some THEN args.general.manifest.v ELSE "False")
       ELSE @]
  /\ pc' = "list_products"
  /\ UNCHANGED <<argv, im, authenticated, page, ps, ss, i, built, added,
                 checkouts, res, files, printed, listed, exit, exc, at>>

(***************************************************************************)
(* run: "if do_list_products(args): return 0".                             *)
(***************************************************************************)
DoListProducts ==
  /\ pc = "list_products"
  /\ IF TruthyStr(args.list_products)
     THEN /\ listed' = "products"
          /\ Return(0)
     ELSE /\ pc' = "list_formats"
          /\ UNCHANGED <<listed, exit, exc, at>>
  /\ UNCHANGED <<argv, args, im, authenticated, page, ps, ss, i, built, added,
                 checkouts, res, files, printed>>

(***************************************************************************)
(* run: "if not args.update and do_list_formats(args): return 0".          *)
(***************************************************************************)
DoListFormats ==
  /\ pc = "list_formats"
  /\ IF ~args.update /\ TruthyStr(args.list_formats)
     THEN /\ listed' = IF args.json THEN "formats_json" ELSE "formats"
          /\ Return(0)
     ELSE /\ pc' = "client"
          /\ UNCHANGED <<listed, exit, exc, at>>
  /\ UNCHANGED <<argv, args, im, authenticated, page, ps, ss, i, built, added,
                 checkouts, res, files, printed>>

(***************************************************************************)
(* run: the client is Fake_IM on a dry run, else the service's client,     *)
(* which authenticates.                                                    *)
(***************************************************************************)
MkClient ==
  /\ pc = "client"
  /\ ps' = args.product
  /\ ss' = args.sender.v
  /\ im' = IF args.dry THEN "fake" ELSE "live"
  /\ \E o \in Outcomes(im') :
       IF args.dry
       THEN /\ pc' = "preview"
            /\ UNCHANGED <<authenticated, exit, exc, at>>
       ELSE IF o = "ok"
       THEN /\ authenticated' = TRUE
            /\ pc' = "preview"
            /\ UNCHANGED <<exit, exc, at>>
       ELSE /\ Raise("Fault", "authenticate")
            /\ UNCHANGED authenticated
  /\ UNCHANGED <<argv, args, page, i, built, added, checkouts, res, files,
                 printed, listed>>

(***************************************************************************)
(* run: "if do_create_preview(im, args): return 0".                        *)
(***************************************************************************)
DoCreatePreview ==
  /\ pc = "preview"
  /\ \E o \in Outcomes(im) :
       IF ~args.preview
       THEN /\ pc' = "update"
            /\ UNCHANGED <<files, exit, exc, at>>
       ELSE IF ~ps.some
       THEN /\ Raise("TypeError", "args.product[0]")
            /\ UNCHANGED files
       ELSE IF Len(ps.v) = 0
       THEN /\ Raise("IndexError", "args.product[0]")
            /\ UNCHANGED files
       ELSE IF o = "fault"
       THEN /\ Raise("Fault", "retrievePreviewPDF")
            /\ UNCHANGED files
       ELSE IF im = "fake"
       THEN \* the fake client returns None, which requests.get rejects
            /\ Raise("MissingSchema", "requests.get")
            /\ UNCHANGED files
       ELSE /\ files' = files \cup {mk_filename(TRUE, args, "postage").v}
            /\ Return(0)
  /\ UNCHANGED <<argv, args, im, authenticated, page, ps, ss, i, built, added,
                 checkouts, res, printed, listed>>

(***************************************************************************)
(* run: "if do_update_list_formats(im, args): return 0".                   *)
(***************************************************************************)
DoUpdateListFormats ==
  /\ pc = "update"
  /\ \E o \in Outcomes(im) :
       IF ~(TruthyStr(args.list_formats) /\ args.update)
       THEN /\ pc' = "get_format"
            /\ UNCHANGED <<listed, exit, exc, at>>
       ELSE IF im = "fake"
       THEN \* Fake_IM has no retrievePageFormats
            /\ Raise("AttributeError", "retrievePageFormats")
            /\ UNCHANGED listed
       ELSE IF o = "fault"
       THEN /\ Raise("Fault", "retrievePageFormats")
            /\ UNCHANGED listed
       ELSE /\ listed' = IF args.json THEN "formats_json" ELSE "formats"
            /\ Return(0)
  /\ UNCHANGED <<argv, args, im, authenticated, page, ps, ss, i, built, added,
                 checkouts, res, files, printed>>

(***************************************************************************)
(* run: "page = get_page_info(get_format(args.format)); i = 0".            *)
(***************************************************************************)
GetFormat ==
  /\ pc = "get_format"
  /\ LET f == get_format(args.format) IN
       IF f.exc # ""
       THEN /\ Raise(f.exc, "get_format")
            /\ UNCHANGED <<page, i>>
       ELSE /\ page' = f.v
            /\ i' = 0
            /\ pc' = "loop"
            /\ UNCHANGED <<exit, exc, at>>
  /\ UNCHANGED <<argv, args, im, authenticated, ps, ss, built, added,
                 checkouts, res, files, printed, listed>>

(***************************************************************************)
(* run: one pass of "for r in args.recipients": buy and the advance of the *)
(* product and sender lists.                                               *)
(***************************************************************************)
BuyOutcomes(client) ==
  IF client = "live" THEN {"ok", "fault_build", "fault_add"} ELSE {"ok"}

\* the lists after one recipient: "if xs.__len__() > 1: xs = xs[1:]"
\* (variant: the used entry goes to the end of the list)
AdvanceRotate(xs) == IF Len(xs) > 1 THEN Tail(xs) \o <<Head(xs)>> ELSE xs
Advance(xs) == IF Len(xs) > 1 THEN Tail(xs) ELSE xs

\* "for r in args.recipients" has run through all the recipients
\* (variant: the loop is left after its first pass)
LoopDoneAfterFirst(n, recipients) == n >= 1 \/ Len(recipients) = 0
LoopDone(n, recipients) == n = Len(recipients)

Buy ==
  /\ pc = "loop"
  /\ i < Len(args.recipients)
  /\ \E o \in BuyOutcomes(im) :
       LET r == args.recipients[i + 1]
           src == mk_address(im, ss[1])
           dst == mk_address(im, r)
           pl == Place(i, page)
           p == [product |-> ps.v[1], sender |-> ss[1], recipient |-> r,
                 page |-> pl.page, x |-> pl.column, y |-> pl.row]
       IN  IF ~ps.some
           THEN /\ Raise("TypeError", "ps[0]")
                /\ UNCHANGED <<ps, ss, i, built, added>>
           ELSE IF Len(ps.v) = 0
           THEN /\ Raise("IndexError", "ps[0]")
                /\ UNCHANGED <<ps, ss, i, built, added>>
           ELSE IF src # ""
           THEN /\ Raise("TypeError", src)
                /\ UNCHANGED <<ps, ss, i, built, added>>
           ELSE IF dst # ""
           THEN /\ Raise("TypeError", dst)
                /\ UNCHANGED <<ps, ss, i, built, added>>
           ELSE IF o = "fault_build"
           THEN /\ Raise("Fault", "build_position")
                /\ UNCHANGED <<ps, ss, i, built, added>>
           ELSE IF o = "fault_add"
           THEN /\ built' = Append(built, p)
                /\ Raise("Fault", "add_position")
                /\ UNCHANGED <<ps, ss, i, added>>
           ELSE /\ built' = Append(built, p)
                /\ added' = added + 1
                /\ ps' = [ps EXCEPT !.v = Advance(@)]
                /\ ss' = Advance(ss)
                /\ i' = i + 1
                /\ UNCHANGED <<pc, exit, exc, at>>
  /\ UNCHANGED <<argv, args, im, authenticated, page, checkouts, res, files,
                 printed, listed>>

(***************************************************************************)
(* run: after the loop, compute_total and checkoutPDF.                     *)
(***************************************************************************)
Checkout ==
  /\ pc = "loop"
  /\ LoopDone(i, args.recipients)
  /\ checkouts' = checkouts + 1
  /\ \E o \in Outcomes(im), shape \in (IF im = "fake" THEN {NoneRes} ELSE ResShapes) :
       IF o = "fault"
       THEN /\ Raise("Fault", "checkoutPDF")
            /\ UNCHANGED res
       ELSE /\ res' = shape
            /\ pc' = "store"
            /\ UNCHANGED <<exit, exc, at>>
  /\ UNCHANGED <<argv, args, im, authenticated, page, ps, ss, i, built, added,
                 files, printed, listed>>

(***************************************************************************)
(* run: store_files(res, args) and "return 0".                             *)
(***************************************************************************)
\* the stamp document store_files finds in the result ("absent" when there is none)
PdfBin(r) ==
  IF r.pdf_bin # "absent" THEN r.pdf_bin
  ELSE IF r.voucher_pdf_bin THEN "data"
  ELSE "absent"

StoreFiles ==
  /\ pc = "store"
  /\ \E lpr \in {"ok", "failed"} :
       LET manifest == mk_filename(FALSE, args, "manifest")
           postage == mk_filename(TRUE, args, "postage")
           pdf_bin == PdfBin(res)
           withManifest == IF res.manifest_pdf_bin /\ TruthyManifest(args.manifest)
                           THEN {manifest.v} ELSE {}
       IN  IF res.manifest_pdf_bin /\ TruthyManifest(args.manifest) /\ manifest.exc # ""
           THEN /\ Raise(manifest.exc, "mk_filename")
                /\ UNCHANGED <<files, printed>>
           ELSE IF res.none
           THEN \* None has no attribute shoppingCart
                /\ Raise("AttributeError", "store_files")
                /\ files' = files \cup withManifest
                /\ UNCHANGED printed
           ELSE IF pdf_bin \in {"absent", "empty"}
           THEN /\ files' = files \cup withManifest
                /\ Return(0)
                /\ UNCHANGED printed
           ELSE IF ~args.print
           THEN /\ files' = files \cup withManifest \cup {postage.v}
                /\ Return(0)
                /\ UNCHANGED printed
           ELSE IF lpr = "ok"
           THEN /\ files' = files \cup withManifest \cup {postage.v}
                /\ printed' = TRUE
                /\ Return(0)
           ELSE /\ files' = files \cup withManifest \cup {postage.v}
                /\ Raise("CalledProcessError", "lpr")
                /\ UNCHANGED printed
  /\ UNCHANGED <<argv, args, im, authenticated, page, ps, ss, i, built, added,
                 checkouts, res, listed>>

Next ==
  \/ ParseArgs
  \/ ParseAddresses
  \/ ApplyConfig
  \/ DoListProducts
  \/ DoListFormats
  \/ MkClient
  \/ DoCreatePreview
  \/ DoUpdateListFormats
  \/ GetFormat
  \/ Buy
  \/ Checkout
  \/ StoreFiles

(***************************************************************************)
(* Command lines.  BaseArgv is the command line without any option; each   *)
(* specification below starts from a family of command lines around it.    *)
(***************************************************************************)
BaseArgv ==
  [recipients |-> <<>>, sender |-> NoList, product |-> NoList, csv |-> NoList,
   format |-> "1", dry |-> FALSE, preview |-> FALSE, update |-> FALSE,
   json |-> FALSE, manifest |-> "False", print |-> FALSE,
   list_products |-> NoStr, list_formats |-> NoStr,
   output |-> ".", suffix |-> "",
   general |-> [section |-> FALSE, manifest |-> NoStr]]

InitOf(A) ==
  /\ argv \in A
  /\ args = argv
  /\ pc = "parse_args"
  /\ im = "none"
  /\ authenticated = FALSE
  /\ page = <<0, 0>>
  /\ ps = NoList
  /\ ss = <<>>
  /\ i = 0
  /\ built = <<>>
  /\ added = 0
  /\ checkouts = 0
  /\ res = NoneRes
  /\ files = {}
  /\ printed = FALSE
  /\ listed = ""
  /\ exit = 0
  /\ exc = ""
  /\ at = ""

\* "J U;S 1;1 C", "A;S 1;1 C" and a string without delimiter
Personal == <<"J", SP, "U", SEMI, "S", SP, "1", SEMI, "1", SP, "C">>
Company == <<"A", SEMI, "S", SP, "1", SEMI, "1", SP, "C">>
Undelimited == <<"A", SP, "B">>

Rep(n, x) == [k \in 1..n |-> x]

SenderJ == <<DOLLAR, "j">>
SenderD == <<DOLLAR, "d">>
SenderK == <<"K", SP, "L", NL, "S", SP, "2">>

SenderLists ==
  {NoList, SomeList(<<SenderJ>>), SomeList(<<SenderJ, SenderD>>),
   SomeList(<<SenderJ, SenderD, SenderK>>)}

ProductLists ==
  {NoList, SomeList(<<"p1">>), SomeList(<<"p1", "p2">>),
   SomeList(<<"p1", "p2", "p3">>)}

\* orders of up to MaxRecipients equal recipients
ArgvOrder ==
  { [BaseArgv EXCEPT !.recipients = Rep(n, r), !.sender = s, !.product = p,
                     !.format = f] :
      n \in 0..MaxRecipients, r \in {Personal, Company, Undelimited},
      s \in SenderLists, p \in ProductLists, f \in {"1", "2", "26", "9"} }

InitOrder == InitOf(ArgvOrder)
SpecOrder == InitOrder /\ [][Next]_vars

(***************************************************************************)
(* Recipient strings of up to MaxLines lines; every line break is a        *)
(* newline or a semicolon, so a string may hold both.                      *)
(***************************************************************************)
LineSet ==
  { <<>>, <<"a">>, <<"a", SP, "b", SP, "c">>, <<SP, "a", SP>> }

RECURSIVE Texts(_)
Texts(n) ==
  IF n = 1 THEN LineSet
  ELSE { t \o <<d>> \o l : t \in Texts(n - 1), d \in {SEMI, NL}, l \in LineSet }

ArgvParse ==
  { [BaseArgv EXCEPT !.recipients = <<t>>, !.product = SomeList(<<"p1">>),
                     !.sender = SomeList(<<SenderJ>>), !.dry = TRUE] :
      t \in UNION { Texts(n) : n \in 1..MaxLines } }

InitParse == InitOf(ArgvParse)
SpecParse == InitParse /\ [][Next]_vars

(***************************************************************************)
(* Command lines with a CSV file: up to MaxCmd recipients on the command   *)
(* line and up to MaxCsvRows data rows of 2, 7, 8 or 9 columns.            *)
(***************************************************************************)
Row2 == << <<>>, <<"F">> >>
Row7 == << <<>>, <<"G">>, <<"S">>, <<"1">>, <<"1">>, <<"C">>, DEU >>
Row8 == << <<"H">>, <<"I">>, <<"S">>, <<"2">>, <<"1">>, <<"C">>, DEU, "x8" >>
Row9 == << <<"K">>, <<"L">>, <<"S">>, <<"3">>, <<"1">>, <<"C">>, DEU, "y8", "z9" >>

RowSet == {Row2, Row7, Row8, Row9}

RECURSIVE RowLists(_)
RowLists(n) ==
  IF n = 0 THEN {<<>>}
  ELSE { Append(rows, r) : rows \in RowLists(n - 1), r \in RowSet }

ArgvCsv ==
  { [BaseArgv EXCEPT !.recipients = Rep(n, Personal), !.product = p,
                     !.sender = SomeList(<<SenderJ>>), !.csv = f] :
      n \in 0..MaxCmd,
      p \in {NoList, SomeList(<<"p1">>), SomeList(<<"p1", "p2">>)},
      f \in {NoList} \cup { SomeList(rows) : rows \in UNION { RowLists(m) : m \in 0..MaxCsvRows } } }

InitCsv == InitOf(ArgvCsv)
SpecCsv == InitCsv /\ [][Next]_vars

(***************************************************************************)
(* Command lines with the listing options.                                 *)
(***************************************************************************)
Patterns == {NoStr, SomeStr(""), SomeStr("."), SomeStr("brief")}

ArgvList ==
  { [BaseArgv EXCEPT !.recipients = r, !.product = p, !.dry = d, !.update = u,
                     !.json = j, !.preview = v, !.sender = SomeList(<<SenderJ>>),
                     !.list_products = lp, !.list_formats = lf] :
      r \in {<<>>, <<Personal>>}, p \in {NoList, SomeList(<<"p1">>)},
      d \in BOOLEAN, u \in BOOLEAN, j \in BOOLEAN, v \in BOOLEAN,
      lp \in Patterns, lf \in Patterns }

InitList == InitOf(ArgvList)
SpecList == InitList /\ [][Next]_vars

(***************************************************************************)
(* Purchases, dry and live, with the options that decide which files are   *)
(* stored.                                                                 *)
(***************************************************************************)
Generals ==
  { [section |-> FALSE, manifest |-> NoStr], [section |-> TRUE, manifest |-> NoStr],
    [section |-> TRUE, manifest |-> SomeStr("")],
    [section |-> TRUE, manifest |-> SomeStr("yes")] }

ArgvPurchase ==
  { [BaseArgv EXCEPT !.recipients = r, !.product = SomeList(<<"p1">>), !.sender = s,
                     !.dry = d, !.manifest = m, !.general = g, !.print = l,
                     !.suffix = x] :
      r \in {<<>>, <<Personal>>, <<Company>>, <<Personal, Company>>},
      s \in {NoList, SomeList(<<SenderJ>>)}, d \in BOOLEAN,
      m \in {"False", "True"}, g \in Generals, l \in BOOLEAN, x \in {"", "-b"} }

InitPurchase == InitOf(ArgvPurchase)
SpecPurchase == InitPurchase /\ [][Next]_vars

(***************************************************************************)
(* Claims about the order (SpecOrder).                                     *)
(***************************************************************************)
Min(a, b) == IF a < b THEN a ELSE b

\* C1: the position built for the recipient at index n (the (n+1)-th
\* position) has page = floor(n / (c*r)) + 1, column = (n mod c) + 1 and
\* row = (floor(n / c) mod r) + 1 for the grid (c, r) of the format; on the
\* 2 x 3 grid index 0 is at (1,1,1), index 5 at page 1, column 2, row 3 and
\* index 6 at page 2, column 1, row 1.
C1_PlacementFormula ==
  /\ \A k \in 1..Len(built) :
       LET n == k - 1
           c == page[1]
           r == page[2]
       IN  /\ built[k].page = (n \div (c * r)) + 1
           /\ built[k].x = (n % c) + 1
           /\ built[k].y = ((n \div c) % r) + 1
  /\ page = <<2, 3>> =>
       /\ Len(built) >= 1 => <<built[1].page, built[1].x, built[1].y>> = <<1, 1, 1>>
       /\ Len(built) >= 6 => <<built[6].page, built[6].x, built[6].y>> = <<1, 2, 3>>
       /\ Len(built) >= 7 => <<built[7].page, built[7].x, built[7].y>> = <<2, 1, 1>>

C1_Witness ==
  /\ page = <<2, 3>>
  /\ Len(built) = 7
  /\ added = 7
  /\ built[7].page = 2

\* C2: with non-empty sender and product lists, the position of the
\* recipient at index n uses the sender at index min(n, |S|-1) and the
\* product at index min(n, |P|-1).
C2_StickyLists ==
  \A k \in 1..Len(built) :
    /\ built[k].sender = args.sender.v[Min(k, Len(args.sender.v))]
    /\ built[k].product = args.product.v[Min(k, Len(args.product.v))]

C2_Witness ==
  /\ Len(built) = 3
  /\ Len(args.sender.v) = 2
  /\ Len(args.product.v) = 1
  /\ built[3].sender = args.sender.v[2]
  /\ built[3].sender # built[1].sender
  /\ built[3].product = "p1"

\* the places where a run can fail before checkoutPDF is called
BeforeCheckout ==
  {"parse_address", "authenticate", "args.product[0]", "retrievePreviewPDF",
   "requests.get", "retrievePageFormats", "get_format", "ps[0]", "build_addr",
   "build_pers_addr", "build_comp_addr", "build_position", "add_position"}

\* C3: checkout is invoked at most once, and only when one position has
\* been added for every recipient, in the order of the recipients; a run
\* that returns 0 from the purchase has invoked it exactly once; a run that
\* fails before checkout never invokes it.
C3_CheckoutOnce ==
  /\ checkouts <= 1
  /\ pc = "loop" => added = i /\ Len(built) = i
  /\ \A k \in 1..Len(built) : built[k].recipient = args.recipients[k]
  /\ checkouts = 1 => added = Len(args.recipients) /\ Len(built) = added
  /\ (pc = "done" /\ exc = "" /\ listed = "" /\ ~args.preview) => checkouts = 1
  /\ (pc = "done" /\ exc # "" /\ at \in BeforeCheckout) => checkouts = 0

C3_Witness ==
  /\ pc = "done"
  /\ exit = 0
  /\ checkouts = 1
  /\ added = 3
  /\ Len(args.recipients) = 3

\* C10: in one order no two recipients get the same label: the placements
\* of different indices differ, every placement lies on the grid, the page
\* never decreases, and the indices of a page are the c*r consecutive
\* indices (p-1)*c*r .. p*c*r - 1.
C10_DistinctLabels ==
  LET c == page[1]
      r == page[2]
      T(k) == <<built[k].page, built[k].x, built[k].y>>
  IN  /\ \A j, k \in 1..Len(built) : j # k => T(j) # T(k)
      /\ \A k \in 1..Len(built) :
           /\ built[k].page >= 1
           /\ built[k].x \in 1..c
           /\ built[k].y \in 1..r
      /\ \A j, k \in 1..Len(built) : j < k => built[j].page <= built[k].page
      /\ \A k \in 1..Len(built) :
           LET q == built[k].page IN
           (q - 1) * c * r <= k - 1 /\ k - 1 < q * c * r

C10_Witness ==
  /\ page = <<2, 2>>
  /\ Len(built) = 7
  /\ built[4].page = 1
  /\ built[5].page = 2

(***************************************************************************)
(* Claims about parse_address (SpecParse).  The expected record is stated  *)
(* by the positions of the delimiters and spaces in the input.             *)
(***************************************************************************)
Positions(s, c) == {k \in 1..Len(s) : s[k] = c}
MinOf(S) == CHOOSE x \in S : \A y \in S : x <= y
MaxOf(S) == CHOOSE x \in S : \A y \in S : y <= x

\* the number of lines of s when d separates them, and the k-th line
LineCount(s, d) == Cardinality(Positions(s, d)) + 1
LineAt(s, d, k) ==
  LET before == {p \in Positions(s, d) : Cardinality({q \in Positions(s, d) : q <= p}) = k - 1}
      after == {p \in Positions(s, d) : Cardinality({q \in Positions(s, d) : q <= p}) = k}
      from == IF k = 1 THEN 1 ELSE MinOf(before) + 1
      to == IF k = LineCount(s, d) THEN Len(s) ELSE MinOf(after) - 1
  IN  SubSeq(s, from, to)

\* a line cut at its last space, and at its first space
CutAtLastSpace(line) ==
  LET p == MaxOf(Positions(line, SP)) IN
  << SubSeq(line, 1, p - 1), SubSeq(line, p + 1, Len(line)) >>
CutAtFirstSpace(line) ==
  LET p == MinOf(Positions(line, SP)) IN
  << SubSeq(line, 1, p - 1), SubSeq(line, p + 1, Len(line)) >>

\* a line without the whitespace around it
Trimmed(line) ==
  LET ink == {k \in 1..Len(line) : line[k] \notin {SP, NL}} IN
  IF ink = {} THEN <<>> ELSE SubSeq(line, MinOf(ink), MaxOf(ink))

\* the record rec is the one the lines of s give when d separates them
FieldsMatch(rec, s, d) ==
  LET n == LineCount(s, d)
      l0 == LineAt(s, d, 1)
      l1 == LineAt(s, d, 2)
      l2 == LineAt(s, d, 3)
      l3 == LineAt(s, d, 4)
  IN  /\ Len(rec) = 7
      /\ IF Positions(l0, SP) = {}
         THEN rec[1] = <<>> /\ rec[2] = l0
         ELSE <<rec[1], rec[2]>> = CutAtLastSpace(l0)
      /\ IF n < 2 THEN rec[3] = <<>> /\ rec[4] = <<>>
         ELSE IF Positions(l1, SP) = {} THEN rec[3] = l1 /\ rec[4] = <<>>
         ELSE <<rec[3], rec[4]>> = CutAtLastSpace(l1)
      /\ IF n < 3 THEN rec[5] = <<>> /\ rec[6] = <<>>
         ELSE IF Positions(l2, SP) = {} THEN rec[5] = <<>> /\ rec[6] = l2
         ELSE <<rec[5], rec[6]>> = CutAtFirstSpace(l2)
      /\ IF n < 4 THEN rec[7] = DEU
         ELSE IF Trimmed(l3) = <<>> THEN rec[7] = DEU
         ELSE rec[7] = Trimmed(l3)

\* the recipient string of the command line and what became of it
Input == argv.recipients[1]
Parsed == pc \notin {"parse_args", "parse_addresses"} /\ at # "parse_address"
Rejected == pc = "done" /\ exc = "ValueError" /\ at = "parse_address"
Delimited(s) == Positions(s, SEMI) \cup Positions(s, NL) # {}

\* the delimiter that comes first in the string
FirstFound(s) ==
  IF s[MinOf(Positions(s, SEMI) \cup Positions(s, NL))] = SEMI THEN SEMI ELSE NL

\* C5 as claimed: the lines are split at the delimiter that is found first
\* in the string, also in a string that holds both; a string without
\* delimiter fails and gives no record.
C5_FirstFoundDelimiter ==
  /\ (Parsed /\ Delimited(Input)) =>
       FieldsMatch(args.recipients[1], Input, FirstFound(Input))
  /\ (pc \notin {"parse_args", "parse_addresses"} /\ ~Delimited(Input)) =>
       Rejected /\ args.recipients = argv.recipients

\* C5 as amended: the lines are split at the semicolon when the string holds
\* a semicolon, and at the newline only when it holds a newline and no
\* semicolon; a string without delimiter fails and gives no record.
C5_SemicolonWins ==
  /\ (Parsed /\ Delimited(Input)) =>
       FieldsMatch(args.recipients[1], Input,
                   IF Positions(Input, SEMI) # {} THEN SEMI ELSE NL)
  /\ (pc \notin {"parse_args", "parse_addresses"} /\ ~Delimited(Input)) =>
       Rejected /\ args.recipients = argv.recipients
  /\ Delimited(Input) => ~Rejected

C5_Witness ==
  /\ Parsed
  /\ Positions(Input, SEMI) # {}
  /\ Positions(Input, NL) # {}
  /\ MinOf(Positions(Input, NL)) < MinOf(Positions(Input, SEMI))
  /\ args.recipients[1][2] = <<"a", NL, "a">>

\* C6: a delimited string gives a record of seven fields built line by
\* line: the name line cut at its last space (no space: empty first name),
\* the street line likewise (no space: empty number), the city line cut at
\* its first space (no space: empty postal code), the country the trimmed
\* fourth line or DEU; a missing line leaves its fields empty.
C6_RecordFromLines ==
  (Parsed /\ Delimited(Input)) =>
     \E d \in {SEMI, NL} :
        /\ Positions(Input, d) # {}
        /\ FieldsMatch(args.recipients[1], Input, d)

C6_Witness ==
  /\ Parsed
  /\ LineCount(Input, SEMI) = 4
  /\ args.recipients[1] =
       << <<"a", SP, "b">>, <<"c">>, <<"a", SP, "b">>, <<"c">>,
          <<"a">>, <<"b", SP, "c">>, <<"a">> >>

(***************************************************************************)
(* Claims about the CSV rows (SpecCsv).                                    *)
(***************************************************************************)
\* C4: the position of a recipient that comes from a CSV row with an eighth
\* column has that row's eighth column as its product, whatever recipients
\* and products the command line gives and whatever the other rows hold.
C4_RowProductOverride ==
  argv.csv.some =>
    \A k \in 1..Len(argv.csv.v) :
      LET n == Len(argv.recipients) + k IN
      (Len(argv.csv.v[k]) > 7 /\ Len(built) >= n) =>
         built[n].product = argv.csv.v[k][8]

(***************************************************************************)
(* Claims about the listing modes (SpecList).                              *)
(***************************************************************************)
\* C8: when --list-products or --list-formats is given without --update,
\* with any pattern, the empty one included, the run neither authenticates
\* nor adds a position nor checks out, and it ends with exit code 0.
C8_ListingBuysNothing ==
  ((argv.list_products.some \/ argv.list_formats.some) /\ ~argv.update) =>
     /\ ~authenticated
     /\ added = 0
     /\ checkouts = 0
     /\ pc = "done" => exit = 0 /\ exc = "" /\ listed # ""

(***************************************************************************)
(* Claims about the stored files and the dry run (SpecPurchase).           *)
(***************************************************************************)
FileName(base) == <<args.output, "/", base, "_", Today, args.suffix, ".pdf">>

\* store_files has run on the result of a checkout of the service
Stored == pc = "done" /\ checkouts = 1 /\ at # "checkoutPDF" /\ ~res.none

\* C7: after a checkout, a manifest that was requested and is part of the
\* result is written to <output>/manifest_<date><suffix>.pdf, a stamp
\* document of the result is written to <output>/postage_<date><suffix>.pdf,
\* and storing a result with both ends without error with both files
\* written.
C7_BothFilesStored ==
  Stored =>
    /\ (res.manifest_pdf_bin /\ TruthyManifest(args.manifest)) =>
          FileName("manifest") \in files
    /\ PdfBin(res) = "data" => FileName("postage") \in files
    /\ (res.manifest_pdf_bin /\ TruthyManifest(args.manifest)
        /\ PdfBin(res) = "data" /\ ~args.print) =>
          exc = "" /\ exit = 0
    /\ Cardinality(files) <= 2

\* C9: on a dry run of a purchase every call of the client is accepted by
\* the fake client: a run whose addresses, products and format are in
\* order goes through checkout and store_files and ends with exit code 0,
\* without an exception and without a file.
C9_DryRunCompletes ==
  (argv.dry /\ pc = "done" /\ at \notin {"parse_address", "get_format", "ps[0]"}) =>
     /\ exc = ""
     /\ exit = 0
     /\ checkouts = 1
     /\ files = {}

====
